---- MODULE Spec2Model ----
(***************************************************************************)
(* State-machine model of sphero_race.py: main's connect/retry loop,       *)
(* auto_calibrate, the endless lap loop, run_lap_by_distance,              *)
(* drive_forward_distance and turn_by, together with the stream of         *)
(* commands they send to the robot.                                        *)
(*                                                                         *)
(* Units.  Angles are centi-degrees (Deg(1) = 100), so that a fractional   *)
(* HEADING_OFFSET and the truncation int(...) before set_heading are       *)
(* visible.  Lengths are millimetres, times milliseconds, the speed        *)
(* coefficient M_PER_S_AT_170 is in 1e-4 m/s (0.60 m/s = 6000) and a       *)
(* velocity v_ms is in micrometres per second (1e-6 m/s).                  *)
(*                                                                         *)
(* Every call on the robot interface has three outcomes: it is delivered   *)
(* and returns ("ok"), it raises without reaching the robot ("lost"), or   *)
(* it reaches the robot and raises all the same ("late").  Ctrl+C          *)
(* (KeyboardInterrupt) may arrive at any program point.                    *)
(***************************************************************************)
EXTENDS Integers, Sequences, FiniteSets, TLC

VARIABLES
    pc,              \* the statement main's thread executes next
    errFrom,         \* the pc an exception or Ctrl+C came from ("" if none)
    attempt,         \* main: i of "for i in range(1, attempts + 1)"
    lap,             \* main: lap counter
    idx,             \* run_lap_by_distance: index of the current segment
    current_hdg,     \* run_lap_by_distance: running logical heading
    HEADING_OFFSET,  \* module global (centi-degrees)
    M_PER_S_AT_170,  \* module global (1e-4 m/s)
    has_locator,     \* whether the api object has a callable get_location
    distance_m,      \* drive_forward_distance: parameter distance_m (mm)
    speed,           \* drive_forward_distance: parameter speed
    use_locator,     \* drive_forward_distance: closed-loop flag
    pos0,            \* drive_forward_distance: (x0, y0) in mm
    elapsed,         \* drive_forward_distance: time.time() - t0 in ms
    robotSpeed,      \* value of the last set_speed that reached the robot
    lastCmd,         \* what the latest step sent or waited: <<kind, value>>
    resetLog,        \* reset operations tried by the latest try_reset_locator
    resetRet,        \* what that try_reset_locator returned ("" outside)
    pollExit,        \* why the poll loop of the current leg was left
    polled,          \* whether an iteration has gone on to poll again since the last tick
    lastLeg,         \* how the previous leg was timed, up to the first tick
    calState,        \* auto_calibrate in this connection: none, running, returned
    written,         \* whether auto_calibrate has ever set the two globals
    biasOk,          \* heading biases that agree with every calibration so far
    calEntry,        \* <<HEADING_OFFSET, M_PER_S_AT_170>> on entry of auto_calibrate
    calWhy,          \* how the latest auto_calibrate returned
    calD,            \* the displacement <<dx, dy>> it measured (mm)
    calTrace         \* events of the current auto_calibrate from the pulse on

vars == <<pc, errFrom, attempt, lap, idx, current_hdg, HEADING_OFFSET,
          M_PER_S_AT_170, has_locator, distance_m, speed, use_locator, pos0,
          elapsed, robotSpeed, lastCmd, resetLog, resetRet, pollExit, polled,
          lastLeg, calState, written, biasOk, calEntry, calWhy, calD, calTrace>>

----------------------------------------------------------------------------
(* Bounds of the model *)

\* the lap loop is unbounded in the code; the model stops after MaxLap laps
MaxLap == 5

\* resolution of the model's clock: one tick of time.time() in ms
TickMs == 1000

\* resolution of the clock when drive_forward_distance is run on its own
FineTickMs == 50

----------------------------------------------------------------------------
(* Program constants *)

PAUSE_SEG_MS == 70
M_DEFAULT == 6000
STRAIGHT_SPEED == 180
TURN_SPEED == 140
TurnThreshold == 20
REF_SPEED == 170
PULSE_SPEED == 120
PULSE_TIME_MS == 700
SETTLE_MS == 250
MIN_DISP_MM == 20
M_LOW == 4500
M_HIGH == 8500
TIMEOUT_FACTOR == 2
MIN_EST_MS == 100
ATTEMPTS == 3
BATTERY_EVERY == 5

Deg(n) == n * 100

\* (distance in mm, turn after the leg in degrees)
SEGMENTS_DISTANCE_TURNS ==
    << <<2300, -90>>, <<2400, -45>>, <<700, -35>>, <<900, -25>>,
       <<900, -15>>, <<800, 60>>, <<1800, -90>>, <<2300, 0>> >>

----------------------------------------------------------------------------
(* Inputs of the environment *)

\* outcomes of one call on the robot interface
Outcomes == {"ok", "lost", "late"}
Delivered(out) == out \in {"ok", "late"}
Raised(out) == out \in {"lost", "late"}

\* positions get_location reports while driving (mm)
PosSet == { <<0, 0>>, <<0, 1000>>, <<2400, 0>> }

\* displacements get_location reports after the calibration pulse (mm)
CalSet == { <<600, 0>>, <<0, 300>>, <<-300, 0>>, <<0, -200>>, <<10, 0>>,
            <<300, 400>> }

\* heading biases of a robot: its true direction of travel is the commanded
\* heading plus the bias (centi-degrees)
BiasSet == {Deg(0), Deg(90), Deg(180), Deg(270)}

NoCmd == <<"none", 0>>
NoSpeed == 0 - 1

----------------------------------------------------------------------------
(* Pure helpers *)

Max(a, b) == IF a >= b THEN a ELSE b
Min(a, b) == IF a <= b THEN a ELSE b
Abs(a) == IF a < 0 THEN -a ELSE a

\* int(x) of a non-negative angle in centi-degrees: whole degrees
ToInt(a) == a \div 100

norm_deg(a) == (a + Deg(360)) % Deg(360)

apply_offset_raw(hdg, off) == hdg + off
apply_offset(hdg, off) == norm_deg(hdg + off)

RECURSIVE SqrtSearch(_, _, _)
SqrtSearch(n, lo, hi) ==
    IF lo >= hi THEN lo
    ELSE LET mid == (lo + hi + 1) \div 2
         IN  IF mid * mid <= n THEN SqrtSearch(n, mid, hi)
                               ELSE SqrtSearch(n, lo, mid - 1)

\* math.hypot in whole millimetres
Hypot(dx, dy) == SqrtSearch(dx * dx + dy * dy, 0, 8192)

\* math.degrees(math.atan2(ay, ax)) for ax, ay >= 0, in centi-degrees, on the
\* directions the model's displacements take (axes, diagonal, 3-4-5 triangle)
AtanFirst(ay, ax) ==
    CASE ay = 0 -> 0
      [] ax = 0 /\ ay # 0 -> 9000
      [] ay = ax /\ ay # 0 -> 4500
      [] 4 * ay = 3 * ax /\ ay # 0 -> 3687
      [] 3 * ay = 4 * ax /\ ay # 0 -> 5313

\* math.degrees(math.atan2(y, x)) in centi-degrees, in [-180, 180].  The code
\* passes y = -dy, so a dy of 0.0 arrives as -0.0 and atan2(-0.0, x < 0) is -180.
Atan2Deg(y, x) ==
    IF y = 0 THEN (IF x < 0 THEN -18000 ELSE 0)
    ELSE IF y > 0 THEN (IF x >= 0 THEN AtanFirst(y, x)
                                  ELSE 18000 - AtanFirst(y, -x))
    ELSE (IF x >= 0 THEN -AtanFirst(-y, x)
                    ELSE AtanFirst(-y, -x) - 18000)

AngleMovedFlipped(dx, dy) == norm_deg(Atan2Deg(dy, dx))
AngleMoved(dx, dy) == norm_deg(Atan2Deg(-dy, dx))

\* a robot of bias b, commanded to heading cmd (whole degrees), is displaced by d
Consistent(b, cmd, d) == AngleMoved(d[1], d[2]) = norm_deg(Deg(cmd) + b)

NewOffset(dx, dy) == norm_deg(-AngleMoved(dx, dy))

\* dist < 0.02
TooSmallNever(dist) == FALSE
TooSmall(dist) == dist < MIN_DISP_MM

ClampNoUpper(v) == Max(M_LOW, v)
Clamp(v) == Max(M_LOW, Min(M_HIGH, v))

\* v_meas = dist / pulse_time, in micrometres per second
VMeas(dist) == (dist * 1000000) \div PULSE_TIME_MS

\* v_meas * 170.0 / pulse_speed, in 1e-4 m/s
ScaledInverse(v) == (v * PULSE_SPEED) \div (REF_SPEED * 100)
Scaled(v) == (v * REF_SPEED) \div (PULSE_SPEED * 100)

NewCoefficient(dx, dy) == Clamp(Scaled(VMeas(Hypot(dx, dy))))

\* v_ms = M_PER_S_AT_170 * (speed / 170.0), in micrometres per second
VelocityUm(m, spd) == (m * 100 * spd) \div REF_SPEED

\* distance_m / max(v_ms, 1e-6) in ms: floor(dist_mm * 10^6 / v), in two steps
\* to stay within 32-bit integers
Duration(dist, m, spd) ==
    LET v == Max(VelocityUm(m, spd), 1)
        q == (dist * 1000) \div v
        r == (dist * 1000) % v
    IN  q * 1000 + (r * 1000) \div v

Est(dist, m, spd) == Max(MIN_EST_MS, Duration(dist, m, spd))

\* (the estimate itself taken as the timeout)
PollBudgetNoFactor(dist, m, spd) == Est(dist, m, spd)

\* est * timeout_factor
PollBudget(dist, m, spd) == Est(dist, m, spd) * TIMEOUT_FACTOR

\* time.time() - t0 > est * timeout_factor
TimedOutNever(el, dist, m, spd) == FALSE
TimedOut(el, dist, m, spd) == el > PollBudget(dist, m, spd)

SegDist(k) == SEGMENTS_DISTANCE_TURNS[k][1]
SegTurn(k) == SEGMENTS_DISTANCE_TURNS[k][2]
\* spd = TURN_SPEED if abs(turn_deg) > 20 else STRAIGHT_SPEED
SpeedForTurn(t) == IF Abs(t) > TurnThreshold THEN TURN_SPEED ELSE STRAIGHT_SPEED
SegSpeed(k) == SpeedForTurn(SegTurn(k))

\* try_reset_locator: r is the outcome of api.reset_locator() ("ok", "attr" for
\* AttributeError, "err" for any other exception), f[k] whether the k-th
\* fallback succeeds.  Returns what it returned and the operations it called.
FallbackNames == <<"set_location", "set_locator", "set_position">>
FirstOk(f) == IF \E k \in 1..3 : f[k]
              THEN CHOOSE k \in 1..3 : f[k] /\ \A j \in 1..(k - 1) : ~f[j]
              ELSE 0
try_reset_locator(r, f) ==
    IF r = "ok" THEN [ret |-> "true", log |-> <<"reset_locator">>]
    ELSE IF r = "err" THEN [ret |-> "raise", log |-> <<"reset_locator">>]
    ELSE IF FirstOk(f) = 0
         THEN [ret |-> "false", log |-> <<"reset_locator">> \o FallbackNames]
         ELSE [ret |-> "true",
               log |-> <<"reset_locator">> \o SubSeq(FallbackNames, 1, FirstOk(f))]

ResetInputs == {"ok", "attr", "err"}
FallbackInputs == [1..3 -> BOOLEAN]

----------------------------------------------------------------------------
(* Control-flow helpers *)

CalPcs == {"cal_stop", "cal_check", "cal_heading", "cal_pulse", "cal_wait",
           "cal_pstop", "cal_settle", "cal_measure"}
DrvPcs == {"drv_reset", "drv_heading", "drv_speed", "drv_loc0", "drv_poll",
           "drv_sleep", "drv_stop"}
LapPcs == DrvPcs \cup {"lap_start", "turn", "lap_led", "lap_front", "lap_battery"}
FinalPcs == {"exit1", "exit2", "interrupted"}

Goto(next) == pc' = next /\ errFrom' = ""
\* an exception leaves the current function and propagates to main's handler
Raise == pc' = "except" /\ errFrom' = pc

\* api.set_speed(v) with outcome out, continuing at next when it returns
SetSpeed(v, out, next) ==
    /\ lastCmd' = IF Delivered(out) THEN <<"set_speed", v>> ELSE NoCmd
    /\ robotSpeed' = IF Delivered(out) THEN v ELSE robotSpeed
    /\ IF Raised(out) THEN Raise ELSE Goto(next)

\* api.set_heading(h) with outcome out, continuing at next when it returns
SetHeading(h, out, next) ==
    /\ lastCmd' = IF Delivered(out) THEN <<"set_heading", h>> ELSE NoCmd
    /\ robotSpeed' = robotSpeed
    /\ IF Raised(out) THEN Raise ELSE Goto(next)

\* how a leg that has reached its stop was timed: by the clock alone, by the
\* position up to the end, or by the position until a read failed
LegMode(closed, why) ==
    IF ~closed THEN "open" ELSE IF why = "read_failed" THEN "aborted" ELSE "closed"

globals == <<HEADING_OFFSET, M_PER_S_AT_170>>
mainLocals == <<attempt, lap>>
lapLocals == <<idx, current_hdg>>
drvLocals == <<distance_m, speed, use_locator, pos0, elapsed>>
calObs == <<calEntry, calWhy, calD, calTrace>>
others == <<has_locator, pollExit, polled, lastLeg, calState, written, biasOk>>

----------------------------------------------------------------------------
(* Initial state: module level, lines 25-46, and main up to the retry loop *)

Init ==
    /\ pc = "pick"
    /\ errFrom = ""
    /\ attempt = 1
    /\ lap = 0
    /\ idx = 0
    /\ current_hdg = 0
    /\ HEADING_OFFSET = 0
    /\ M_PER_S_AT_170 = M_DEFAULT
    /\ has_locator \in BOOLEAN
    /\ distance_m = 0
    /\ speed = 0
    /\ use_locator = FALSE
    /\ pos0 = <<0, 0>>
    /\ elapsed = 0
    /\ robotSpeed = NoSpeed
    /\ lastCmd = NoCmd
    /\ resetLog = <<>>
    /\ resetRet = ""
    /\ pollExit = ""
    /\ polled = FALSE
    /\ lastLeg = ""
    /\ calState = "none"
    /\ written = FALSE
    /\ biasOk = BiasSet
    /\ calEntry = <<0, 0>>
    /\ calWhy = ""
    /\ calD = <<0, 0>>
    /\ calTrace = <<>>

----------------------------------------------------------------------------
(* main *)

\* pick_toy_by_name_or_scan: a toy, or None and sys.exit(1)
PickToy ==
    /\ pc = "pick"
    /\ \E found \in BOOLEAN : Goto(IF found THEN "connect" ELSE "exit1")
    /\ lastCmd' = NoCmd /\ resetLog' = <<>> /\ resetRet' = ""
    /\ UNCHANGED <<globals, mainLocals, lapLocals, drvLocals, calObs,
                   others, robotSpeed>>

\* with SpheroEduAPI(toy) as api: the connection is made, or raises
Connect ==
    /\ pc = "connect"
    /\ \E ok \in BOOLEAN : IF ok THEN Goto("battery") ELSE Raise
    /\ lastCmd' = NoCmd /\ resetLog' = <<>> /\ resetRet' = ""
    /\ UNCHANGED <<globals, mainLocals, lapLocals, drvLocals, calObs,
                   others, robotSpeed>>

\* battery_led(api, toy): the voltage read fails and it returns, or the front
\* LED is set, which may raise (the call is outside the try)
BatteryInputs == {"no_voltage", "led_ok", "led_raises"}
battery_led(next) ==
    /\ \E b \in BatteryInputs : IF b = "led_raises" THEN Raise ELSE Goto(next)
    /\ lastCmd' = NoCmd /\ resetLog' = <<>> /\ resetRet' = ""
    /\ UNCHANGED <<globals, mainLocals, lapLocals, drvLocals, calObs,
                   others, robotSpeed>>

\* (auto_calibrate left out: the laps follow the battery check)
BatteryThenLaps ==
    /\ pc = "battery"
    /\ battery_led("lap_start")

Battery ==
    /\ pc = "battery"
    /\ battery_led("cal_stop")

\* show_countdown: indicator calls (all guarded by safe_matrix_char) and sleeps
Countdown ==
    /\ pc = "countdown"
    /\ Goto("lap_start")
    /\ lastCmd' = NoCmd /\ resetLog' = <<>> /\ resetRet' = ""
    /\ calEntry' = <<0, 0>> /\ calWhy' = "" /\ calD' = <<0, 0>> /\ calTrace' = <<>>
    /\ lap' = 0
    /\ UNCHANGED <<globals, attempt, lapLocals, drvLocals, others, robotSpeed>>

\* (a lap that starts at the heading the previous lap ended with)
LapStartKeepsHeading ==
    /\ pc = "lap_start"
    /\ lap < MaxLap
    /\ lap' = lap + 1
    /\ current_hdg' = norm_deg(current_hdg)
    /\ idx' = 1
    /\ distance_m' = SegDist(1) /\ speed' = SegSpeed(1)
    /\ Goto("drv_reset")
    /\ lastCmd' = NoCmd /\ resetLog' = <<>> /\ resetRet' = ""
    /\ UNCHANGED <<globals, attempt, use_locator, pos0, elapsed, calObs, others,
                   robotSpeed>>

\* (a lap loop that ends after two laps)
LapStartTwice ==
    /\ pc = "lap_start"
    /\ lap < Min(MaxLap, 2)
    /\ lap' = lap + 1
    /\ current_hdg' = norm_deg(Deg(0))
    /\ idx' = 1
    /\ distance_m' = SegDist(1) /\ speed' = SegSpeed(1)
    /\ Goto("drv_reset")
    /\ lastCmd' = NoCmd /\ resetLog' = <<>> /\ resetRet' = ""
    /\ UNCHANGED <<globals, attempt, use_locator, pos0, elapsed, calObs, others,
                   robotSpeed>>

\* while True: lap += 1; run_lap_by_distance(api, 0) up to its loop
LapStart ==
    /\ pc = "lap_start"
    /\ lap < MaxLap
    /\ lap' = lap + 1
    /\ current_hdg' = norm_deg(Deg(0))
    /\ idx' = 1
    /\ distance_m' = SegDist(1) /\ speed' = SegSpeed(1)
    /\ Goto("drv_reset")
    /\ lastCmd' = NoCmd /\ resetLog' = <<>> /\ resetRet' = ""
    /\ UNCHANGED <<globals, attempt, use_locator, pos0, elapsed, calObs, others,
                   robotSpeed>>

\* api.set_led(Color(0, 0, 0)) after the lap: may raise
LapLed ==
    /\ pc = "lap_led"
    /\ \E ok \in BOOLEAN : IF ok THEN Goto("lap_front") ELSE Raise
    /\ lastCmd' = NoCmd /\ resetLog' = <<>> /\ resetRet' = ""
    /\ UNCHANGED <<globals, mainLocals, lapLocals, drvLocals, calObs,
                   others, robotSpeed>>

\* api.set_front_led(Color(0, 255, 0)): may raise; then "if lap % 5 == 0"
LapFrontLed ==
    /\ pc = "lap_front"
    /\ \E ok \in BOOLEAN :
         IF ok THEN Goto(IF lap % BATTERY_EVERY = 0 THEN "lap_battery" ELSE "lap_start")
               ELSE Raise
    /\ lastCmd' = NoCmd /\ resetLog' = <<>> /\ resetRet' = ""
    /\ UNCHANGED <<globals, mainLocals, lapLocals, drvLocals, calObs,
                   others, robotSpeed>>

\* (the battery check of every fifth lap followed by a new auto_calibrate)
LapBatteryRecalibrates ==
    /\ pc = "lap_battery"
    /\ battery_led("cal_stop")

LapBattery ==
    /\ pc = "lap_battery"
    /\ battery_led("lap_start")

\* (the attempts given back once a connection has driven a lap)
HandleErrorRestores ==
    /\ pc = "except"
    /\ IF attempt < ATTEMPTS \/ lap > 0
       THEN /\ attempt' = IF lap > 0 THEN 1 ELSE attempt + 1
            /\ Goto("connect")
       ELSE /\ attempt' = attempt
            /\ Goto("exit2")
    /\ lap' = 0 /\ idx' = 0 /\ current_hdg' = 0
    /\ distance_m' = 0 /\ speed' = 0
    /\ use_locator' = FALSE /\ pos0' = <<0, 0>> /\ elapsed' = 0
    /\ calEntry' = <<0, 0>> /\ calWhy' = "" /\ calD' = <<0, 0>> /\ calTrace' = <<>>
    /\ lastCmd' = NoCmd /\ resetLog' = <<>> /\ resetRet' = ""
    /\ pollExit' = "" /\ polled' = FALSE /\ lastLeg' = "" /\ calState' = "none"
    /\ UNCHANGED <<globals, has_locator, written, biasOk, robotSpeed>>

\* except Exception: retry while i < attempts, else sys.exit(2)
HandleError ==
    /\ pc = "except"
    /\ IF attempt < ATTEMPTS
       THEN /\ attempt' = attempt + 1
            /\ Goto("connect")
       ELSE /\ attempt' = attempt
            /\ Goto("exit2")
    /\ lap' = 0 /\ idx' = 0 /\ current_hdg' = 0
    /\ distance_m' = 0 /\ speed' = 0
    /\ use_locator' = FALSE /\ pos0' = <<0, 0>> /\ elapsed' = 0
    /\ calEntry' = <<0, 0>> /\ calWhy' = "" /\ calD' = <<0, 0>> /\ calTrace' = <<>>
    /\ lastCmd' = NoCmd /\ resetLog' = <<>> /\ resetRet' = ""
    /\ pollExit' = "" /\ polled' = FALSE /\ lastLeg' = "" /\ calState' = "none"
    /\ UNCHANGED <<globals, has_locator, written, biasOk, robotSpeed>>

\* Ctrl+C: KeyboardInterrupt is no Exception, so it passes main's handler and
\* ends the process at the "except KeyboardInterrupt" of the module's last lines
Interrupt ==
    /\ pc \notin FinalPcs
    /\ pc' = "interrupted"
    /\ errFrom' = pc
    /\ lastCmd' = NoCmd /\ resetLog' = <<>> /\ resetRet' = ""
    /\ UNCHANGED <<globals, mainLocals, lapLocals, drvLocals, calObs,
                   others, robotSpeed>>

----------------------------------------------------------------------------
(* auto_calibrate *)

\* api.set_speed(0), the "C" indicator (failures swallowed by safe_matrix_char)
\* and sleep(0.2)
CalStop ==
    /\ pc = "cal_stop"
    /\ \E out \in Outcomes : SetSpeed(0, out, "cal_check")
    /\ calEntry' = <<HEADING_OFFSET, M_PER_S_AT_170>>
    /\ calWhy' = "" /\ calD' = <<0, 0>> /\ calTrace' = <<>>
    /\ resetLog' = <<>> /\ resetRet' = ""
    /\ calState' = IF calState = "none" THEN "running" ELSE "rerun"
    /\ UNCHANGED <<globals, mainLocals, lapLocals, drvLocals, has_locator, pollExit,
                   polled, lastLeg, written, biasOk>>

\* "if not supports_locator(api): return" and "if not try_reset_locator(api):
\* return"; an exception of reset_locator other than AttributeError propagates
CalCheck ==
    /\ pc = "cal_check"
    /\ IF ~has_locator
       THEN /\ Goto("countdown")
            /\ calWhy' = "no_locator"
            /\ resetLog' = <<>> /\ resetRet' = ""
       ELSE \E r \in ResetInputs, f \in FallbackInputs :
              LET res == try_reset_locator(r, f)
              IN  /\ resetLog' = res.log /\ resetRet' = res.ret
                  /\ CASE res.ret = "true" -> Goto("cal_heading") /\ calWhy' = ""
                       [] res.ret = "false" -> Goto("countdown") /\ calWhy' = "reset_failed"
                       [] res.ret = "raise" -> Raise /\ calWhy' = ""
    /\ calState' = IF pc' = "countdown" THEN "returned" ELSE calState
    /\ lastCmd' = NoCmd
    /\ UNCHANGED <<globals, mainLocals, lapLocals, drvLocals, has_locator, pollExit,
                   polled, lastLeg, written, biasOk, robotSpeed, calEntry, calD, calTrace>>

\* api.set_heading(int(apply_offset(0)))
CalHeading ==
    /\ pc = "cal_heading"
    /\ \E out \in Outcomes :
         /\ SetHeading(ToInt(apply_offset(Deg(0), HEADING_OFFSET)), out, "cal_pulse")
         /\ calTrace' = IF Delivered(out) THEN Append(calTrace, lastCmd') ELSE calTrace
    /\ resetLog' = <<>> /\ resetRet' = ""
    /\ UNCHANGED <<globals, mainLocals, lapLocals, drvLocals, others,
                   calEntry, calWhy, calD>>

\* api.set_speed(pulse_speed)
CalPulse ==
    /\ pc = "cal_pulse"
    /\ \E out \in Outcomes :
         /\ SetSpeed(PULSE_SPEED, out, "cal_wait")
         /\ calTrace' = IF Delivered(out) THEN Append(calTrace, lastCmd') ELSE calTrace
    /\ resetLog' = <<>> /\ resetRet' = ""
    /\ UNCHANGED <<globals, mainLocals, lapLocals, drvLocals, others,
                   calEntry, calWhy, calD>>

\* time.sleep(pulse_time)
CalWait ==
    /\ pc = "cal_wait"
    /\ Goto("cal_pstop")
    /\ lastCmd' = <<"sleep", PULSE_TIME_MS>>
    /\ calTrace' = Append(calTrace, lastCmd')
    /\ resetLog' = <<>> /\ resetRet' = ""
    /\ UNCHANGED <<globals, mainLocals, lapLocals, drvLocals, others,
                   robotSpeed, calEntry, calWhy, calD>>

\* api.set_speed(0)
CalPulseStop ==
    /\ pc = "cal_pstop"
    /\ \E out \in Outcomes :
         /\ SetSpeed(0, out, "cal_settle")
         /\ calTrace' = IF Delivered(out) THEN Append(calTrace, lastCmd') ELSE calTrace
    /\ resetLog' = <<>> /\ resetRet' = ""
    /\ UNCHANGED <<globals, mainLocals, lapLocals, drvLocals, others,
                   calEntry, calWhy, calD>>

\* time.sleep(0.25)
CalSettle ==
    /\ pc = "cal_settle"
    /\ Goto("cal_measure")
    /\ lastCmd' = <<"sleep", SETTLE_MS>>
    /\ calTrace' = Append(calTrace, lastCmd')
    /\ resetLog' = <<>> /\ resetRet' = ""
    /\ UNCHANGED <<globals, mainLocals, lapLocals, drvLocals, others,
                   robotSpeed, calEntry, calWhy, calD>>

\* loc = api.get_location() and the rest of auto_calibrate: the read raises
\* (skip), the displacement is below 0.02 m (skip), or both globals are set
CalMeasure ==
    /\ pc = "cal_measure"
    /\ \/ /\ calWhy' = "read_failed"
          /\ calD' = <<0, 0>>
          /\ UNCHANGED <<globals, written, biasOk>>
       \/ \E d \in CalSet :
            /\ calD' = d
            /\ IF TooSmall(Hypot(d[1], d[2]))
               THEN /\ calWhy' = "too_small"
                    /\ UNCHANGED <<globals, written, biasOk>>
               ELSE /\ calWhy' = "done"
                    /\ HEADING_OFFSET' = NewOffset(d[1], d[2])
                    /\ M_PER_S_AT_170' = NewCoefficient(d[1], d[2])
                    /\ written' = TRUE
                    /\ biasOk' = {b \in biasOk :
                                   Consistent(b, ToInt(apply_offset(Deg(0), HEADING_OFFSET)), d)}
    /\ calState' = "returned"
    /\ Goto("countdown")
    /\ lastCmd' = NoCmd
    /\ calTrace' = Append(calTrace, <<"get_location", 0>>)
    /\ resetLog' = <<>> /\ resetRet' = ""
    /\ UNCHANGED <<mainLocals, lapLocals, drvLocals, has_locator, pollExit, polled,
                   lastLeg, robotSpeed, calEntry>>

----------------------------------------------------------------------------
(* drive_forward_distance, turn_by and the segment loop of run_lap_by_distance *)

\* (a leg that, once a leg has run without the position, never tries the
\* position again)
DrvResetRemembers ==
    /\ pc = "drv_reset"
    /\ IF ~has_locator
       THEN /\ use_locator' = FALSE
            /\ resetLog' = <<>> /\ resetRet' = ""
            /\ Goto("drv_heading")
       ELSE \E r \in ResetInputs, f \in FallbackInputs :
              LET res == try_reset_locator(r, f)
              IN  /\ resetLog' = res.log /\ resetRet' = res.ret
                  /\ use_locator' = (res.ret = "true" /\ lastLeg \notin {"open", "aborted"})
                  /\ IF res.ret = "raise" THEN Raise ELSE Goto("drv_heading")
    /\ lastCmd' = NoCmd
    /\ UNCHANGED <<globals, mainLocals, lapLocals, distance_m, speed, pos0, elapsed,
                   calObs, others, robotSpeed>>

\* use_locator = supports_locator(api) and try_reset_locator(api)
DrvReset ==
    /\ pc = "drv_reset"
    /\ IF ~has_locator
       THEN /\ use_locator' = FALSE
            /\ resetLog' = <<>> /\ resetRet' = ""
            /\ Goto("drv_heading")
       ELSE \E r \in ResetInputs, f \in FallbackInputs :
              LET res == try_reset_locator(r, f)
              IN  /\ resetLog' = res.log /\ resetRet' = res.ret
                  /\ use_locator' = (res.ret = "true")
                  /\ IF res.ret = "raise" THEN Raise ELSE Goto("drv_heading")
    /\ lastCmd' = NoCmd
    /\ UNCHANGED <<globals, mainLocals, lapLocals, distance_m, speed, pos0, elapsed,
                   calObs, others, robotSpeed>>

\* api.set_heading(int(apply_offset(heading_deg)))
DrvHeading ==
    /\ pc = "drv_heading"
    /\ \E out \in Outcomes :
         SetHeading(ToInt(apply_offset(current_hdg, HEADING_OFFSET)), out, "drv_speed")
    /\ resetLog' = <<>> /\ resetRet' = ""
    /\ UNCHANGED <<globals, mainLocals, lapLocals, drvLocals, calObs, others>>

\* api.set_speed(int(speed))
DrvSpeed ==
    /\ pc = "drv_speed"
    /\ \E out \in Outcomes : SetSpeed(speed, out, "drv_loc0")
    /\ resetLog' = <<>> /\ resetRet' = ""
    /\ UNCHANGED <<globals, mainLocals, lapLocals, drvLocals, calObs, others>>

\* "if use_locator: loc0 = api.get_location()", a failure clearing use_locator;
\* then the branch: t0 = time.time() and the poll loop, or the timed sleep
DrvLoc0 ==
    /\ pc = "drv_loc0"
    /\ IF use_locator
       THEN \/ /\ use_locator' = FALSE
               /\ pos0' = pos0
               /\ Goto("drv_sleep")
            \/ \E p \in PosSet :
                 /\ use_locator' = TRUE
                 /\ pos0' = p
                 /\ Goto("drv_poll")
       ELSE /\ UNCHANGED <<use_locator, pos0>>
            /\ Goto("drv_sleep")
    /\ elapsed' = 0
    /\ lastCmd' = NoCmd /\ resetLog' = <<>> /\ resetRet' = ""
    /\ UNCHANGED <<globals, mainLocals, lapLocals, distance_m, speed, calObs, others,
                   robotSpeed>>

\* one iteration of "while True": the read raises (break), the distance is
\* reached (break), the time is up (break), or sleep(0.02) and poll again
DrvPoll ==
    /\ pc = "drv_poll"
    /\ \/ Goto("drv_stop") /\ pollExit' = "read_failed"
       \/ \E p \in PosSet :
            IF Hypot(p[1] - pos0[1], p[2] - pos0[2]) >= distance_m
            THEN Goto("drv_stop") /\ pollExit' = "reached"
            ELSE IF TimedOut(elapsed, distance_m, M_PER_S_AT_170, speed)
                 THEN Goto("drv_stop") /\ pollExit' = "timeout"
                 ELSE Goto("drv_poll") /\ pollExit' = pollExit
    /\ polled' = (pc' = "drv_poll")
    /\ lastLeg' = IF pc' = "drv_poll" THEN lastLeg ELSE ""
    /\ lastCmd' = NoCmd /\ resetLog' = <<>> /\ resetRet' = ""
    /\ UNCHANGED <<globals, mainLocals, lapLocals, drvLocals, calObs,
                   has_locator, calState, written, biasOk, robotSpeed>>

\* the clock read by time.time() advances while the loop polls; the model
\* stops it once it has passed est * timeout_factor
ClockTick ==
    /\ pc = "drv_poll"
    /\ elapsed <= PollBudget(distance_m, M_PER_S_AT_170, speed)
    /\ elapsed' = elapsed + TickMs
    /\ lastLeg' = "" /\ polled' = FALSE
    /\ UNCHANGED <<pc, errFrom, globals, mainLocals, lapLocals, distance_m, speed,
                   use_locator, pos0, calObs, has_locator, pollExit, calState,
                   written, biasOk, robotSpeed, lastCmd, resetLog, resetRet>>

\* the same clock at the finer resolution
FineTick ==
    /\ pc = "drv_poll"
    /\ elapsed <= PollBudget(distance_m, M_PER_S_AT_170, speed)
    /\ elapsed' = elapsed + FineTickMs
    /\ lastLeg' = "" /\ polled' = FALSE
    /\ UNCHANGED <<pc, errFrom, globals, mainLocals, lapLocals, distance_m, speed,
                   use_locator, pos0, calObs, has_locator, pollExit, calState,
                   written, biasOk, robotSpeed, lastCmd, resetLog, resetRet>>

\* open loop: time.sleep(distance_m / max(v_ms, 1e-6))
DrvSleep ==
    /\ pc = "drv_sleep"
    /\ Goto("drv_stop")
    /\ lastCmd' = <<"sleep", Duration(distance_m, M_PER_S_AT_170, speed)>>
    /\ resetLog' = <<>> /\ resetRet' = ""
    /\ UNCHANGED <<globals, mainLocals, lapLocals, drvLocals, calObs,
                   others, robotSpeed>>

\* (the stop left out: the function returns with the robot still driving)
DrvStopMissing ==
    /\ pc = "drv_stop"
    /\ Goto("turn")
    /\ lastCmd' = NoCmd
    /\ use_locator' = FALSE /\ pos0' = <<0, 0>> /\ elapsed' = 0
    /\ resetLog' = <<>> /\ resetRet' = ""
    /\ pollExit' = "" /\ lastLeg' = LegMode(use_locator, pollExit)
    /\ UNCHANGED <<globals, mainLocals, lapLocals, distance_m, speed, calObs,
                   has_locator, polled, calState, written, biasOk, robotSpeed>>

\* api.set_speed(0); time.sleep(PAUSE_SEG); return
DrvStop ==
    /\ pc = "drv_stop"
    /\ \E out \in Outcomes : SetSpeed(0, out, "turn")
    /\ use_locator' = FALSE /\ pos0' = <<0, 0>> /\ elapsed' = 0
    /\ resetLog' = <<>> /\ resetRet' = ""
    /\ pollExit' = ""
    /\ lastLeg' = IF pc' = "turn" THEN LegMode(use_locator, pollExit) ELSE ""
    /\ UNCHANGED <<globals, mainLocals, lapLocals, distance_m, speed, calObs,
                   has_locator, polled, calState, written, biasOk>>

\* current_hdg = turn_by(api, current_hdg, turn_deg), then the next segment or
\* the end of run_lap_by_distance
TurnBy ==
    /\ pc = "turn"
    /\ LET new_hdg == norm_deg(current_hdg + Deg(SegTurn(idx)))
       IN  \E out \in Outcomes :
             /\ SetHeading(ToInt(apply_offset(new_hdg, HEADING_OFFSET)), out,
                           IF idx < Len(SEGMENTS_DISTANCE_TURNS)
                           THEN "drv_reset" ELSE "lap_led")
             /\ IF Raised(out)
                THEN UNCHANGED <<lapLocals, distance_m, speed>>
                ELSE /\ current_hdg' = new_hdg
                     /\ idx' = IF idx < Len(SEGMENTS_DISTANCE_TURNS) THEN idx + 1 ELSE 0
                     /\ distance_m' = IF idx' = 0 THEN 0 ELSE SegDist(idx')
                     /\ speed' = IF idx' = 0 THEN 0 ELSE SegSpeed(idx')
    /\ resetLog' = <<>> /\ resetRet' = ""
    /\ UNCHANGED <<globals, mainLocals, use_locator, pos0, elapsed, calObs, others>>

----------------------------------------------------------------------------
(* Specifications *)

Next ==
    \/ PickToy \/ Connect \/ Battery \/ Countdown \/ LapStart \/ LapLed
    \/ LapFrontLed \/ LapBattery \/ HandleError \/ Interrupt
    \/ CalStop \/ CalCheck \/ CalHeading \/ CalPulse \/ CalWait \/ CalPulseStop
    \/ CalSettle \/ CalMeasure
    \/ DrvReset \/ DrvHeading \/ DrvSpeed \/ DrvLoc0 \/ DrvPoll \/ ClockTick
    \/ DrvSleep \/ DrvStop \/ TurnBy

Spec == Init /\ [][Next]_vars

\* An iteration of the poll loop made once the time is up.  Fairness is asked
\* of these iterations only: what an earlier iteration reads is the robot's
\* choice, and no reading is ever forced.
PollTimesOut ==
    /\ pc = "drv_poll"
    /\ TimedOut(elapsed, distance_m, M_PER_S_AT_170, speed)
    /\ DrvPoll

\* the single control thread keeps running and the clock keeps advancing
LiveSpec ==
    Spec /\ WF_vars(ClockTick) /\ WF_vars(PollTimesOut) /\ WF_vars(DrvStop)

\* drive_forward_distance on its own: one call, after a calibration, for
\* distances and speeds beyond those of SEGMENTS_DISTANCE_TURNS
DistanceSet == {50, 100, 700, 2400}
SpeedSet == {60, TURN_SPEED, STRAIGHT_SPEED}
CoefficientSet == {M_LOW, M_DEFAULT, M_HIGH}

DriveInit ==
    /\ pc = "drv_reset"
    /\ errFrom = ""
    /\ attempt = 1
    /\ lap = 0
    /\ idx = 0
    /\ current_hdg = 0
    /\ HEADING_OFFSET = 0
    /\ M_PER_S_AT_170 \in CoefficientSet
    /\ has_locator \in BOOLEAN
    /\ distance_m \in DistanceSet
    /\ speed \in SpeedSet
    /\ use_locator = FALSE
    /\ pos0 = <<0, 0>>
    /\ elapsed = 0
    /\ robotSpeed = 0
    /\ lastCmd = NoCmd
    /\ resetLog = <<>>
    /\ resetRet = ""
    /\ pollExit = ""
    /\ polled = FALSE
    /\ lastLeg = ""
    /\ calState = "returned"
    /\ written = FALSE
    /\ biasOk = BiasSet
    /\ calEntry = <<0, 0>>
    /\ calWhy = ""
    /\ calD = <<0, 0>>
    /\ calTrace = <<>>

DriveNext ==
    \/ DrvReset \/ DrvHeading \/ DrvSpeed \/ DrvLoc0 \/ DrvPoll \/ FineTick
    \/ DrvSleep \/ DrvStop

DriveSpec == DriveInit /\ [][DriveNext]_vars

\* the steps of the lap loop other than the poll loop's: the control thread
\* executes each of them once it has reached it
LapSteps ==
    \/ LapStart \/ DrvReset \/ DrvHeading \/ DrvSpeed \/ DrvLoc0 \/ DrvSleep
    \/ TurnBy \/ LapLed \/ LapFrontLed \/ LapBattery

LapLiveSpec == LiveSpec /\ WF_vars(LapSteps)

TypeOK ==
    /\ attempt \in 1..ATTEMPTS
    /\ lap \in 0..MaxLap
    /\ idx \in 0..Len(SEGMENTS_DISTANCE_TURNS)
    /\ robotSpeed \in {NoSpeed, 0, PULSE_SPEED} \cup SpeedSet

----------------------------------------------------------------------------
(* Claims *)

IsDriveCmd(c) == c[1] = "set_heading" \/ (c[1] = "set_speed" /\ c[2] # 0)

\* C1: whenever a set_heading or a non-zero set_speed reaches the robot, the
\* last speed command that reached it before was set_speed(0): no two
\* non-zero speeds, and no non-zero speed and a following heading, without a
\* stop in between (calibration pulse and every leg of every lap).
C1_StopBetweenDrives ==
    [][IsDriveCmd(lastCmd') => robotSpeed = 0]_vars

\* a leg of a later lap has been driven and stopped
C1_Witness ==
    /\ pc = "turn" /\ lap = 2 /\ idx = 3
    /\ lastCmd = <<"set_speed", 0>>
    /\ robotSpeed = 0

\* C2: a closed-loop drive_forward_distance leaves its poll loop and the
\* function whatever the positions read, provided the clock advances; the
\* loop is left only towards the stop command.
C2_DriveTerminates ==
    /\ (pc = "drv_poll") ~> (pc \in {"turn", "except", "interrupted"})
    /\ [][(pc = "drv_poll" /\ pc' # "drv_poll")
            => pc' \in {"drv_stop", "interrupted"}]_vars

\* the loop was left on the timeout, the target never having been reached
C2_Witness ==
    /\ pc = "drv_stop"
    /\ use_locator
    /\ TimedOut(elapsed, distance_m, M_PER_S_AT_170, speed)

\* C3: after Ctrl+C during a lap the program has exited with set_speed(0)
\* the last speed command sent.
C3_CancelLeavesStopped ==
    (pc = "interrupted" /\ errFrom \in LapPcs) => robotSpeed = 0

\* C4: whenever control leaves auto_calibrate or drive_forward_distance, by a
\* return or by an error propagating to main, the last speed command sent (if
\* any) is set_speed(0).
C4_LeavesStopped ==
    /\ pc \in {"countdown", "turn"} => robotSpeed = 0
    /\ (pc = "except" /\ errFrom \in (CalPcs \cup DrvPcs))
         => robotSpeed \in {0, NoSpeed}

\* norm_deg on a range of arguments around [-720, 720] degrees
NormRange == (0 - Deg(720)) .. Deg(720)
NormInRange == \A h \in NormRange : norm_deg(h) \in 0 .. (Deg(360) - 1)

\* C5: every heading sent with set_heading is an integer in 0..359, and
\* current_hdg, HEADING_OFFSET and norm_deg(h) lie in [0, 360).
C5_HeadingsNormalized ==
    /\ lastCmd[1] = "set_heading" => lastCmd[2] \in 0..359
    /\ current_hdg \in 0 .. (Deg(360) - 1)
    /\ HEADING_OFFSET \in 0 .. (Deg(360) - 1)
    /\ NormInRange

\* a heading sent in a later lap, after negative turns, with a fractional offset
C5_Witness ==
    /\ lastCmd[1] = "set_heading"
    /\ HEADING_OFFSET = 5313
    /\ current_hdg = Deg(120)
    /\ lap = 2

\* C6: M_PER_S_AT_170 lies within [0.45, 0.85] in every reachable state.
C6_CoefficientClamped ==
    M_PER_S_AT_170 \in M_LOW .. M_HIGH

\* a calibration on a reconnect whose measured speed is above the upper bound
C6_Witness ==
    /\ pc = "countdown" /\ attempt = 2
    /\ calWhy = "done" /\ calD = <<300, 400>>
    /\ M_PER_S_AT_170 = M_HIGH

\* C7: when auto_calibrate ends on a skip path (no get_location, no reset
\* succeeded, the read after the pulse raised, displacement below 0.02 m) it
\* has returned normally and both globals equal their values on entry.
C7_SkipKeepsCalibration ==
    (/\ pc = "countdown"
     /\ \/ calWhy \in {"no_locator", "reset_failed", "read_failed"}
        \/ calD[1] * calD[1] + calD[2] * calD[2] < MIN_DISP_MM * MIN_DISP_MM)
      => /\ <<HEADING_OFFSET, M_PER_S_AT_170>> = calEntry
         /\ errFrom = ""
         /\ calWhy # "done"

\* a displacement of 0.01 m skipped, values of an earlier calibration retained
C7_Witness ==
    /\ pc = "countdown"
    /\ calWhy = "too_small" /\ calD = <<10, 0>>
    /\ calEntry[1] = Deg(90) /\ calEntry[2] # M_DEFAULT
    /\ <<HEADING_OFFSET, M_PER_S_AT_170>> = calEntry

\* C8: a performed calibration sets HEADING_OFFSET to (-angleMoved) mod 360:
\* 0 for a displacement along +x, 90 along +y, 180 along -x, 270 along -y
\* (and 53.13 for (0.3, 0.4), where atan2(-0.4, 0.3) = -53.13).
C8_OffsetFromDisplacement ==
    (pc = "countdown" /\ calWhy = "done") =>
        /\ (calD[1] > 0 /\ calD[2] = 0) => HEADING_OFFSET = Deg(0)
        /\ (calD[1] = 0 /\ calD[2] > 0) => HEADING_OFFSET = Deg(90)
        /\ (calD[1] < 0 /\ calD[2] = 0) => HEADING_OFFSET = Deg(180)
        /\ (calD[1] = 0 /\ calD[2] < 0) => HEADING_OFFSET = Deg(270)
        /\ calD = <<300, 400>> => HEADING_OFFSET = 5313

\* the displacement (0, 0.30) of the specification's example
C8_Witness ==
    /\ pc = "countdown" /\ calWhy = "done"
    /\ calD = <<0, 300>>
    /\ HEADING_OFFSET = Deg(90)

\* C9 as stated: dx = 0.60, dy = 0 over 0.70 s at speed 120 gives a
\* coefficient of about 0.7286.
C9_CoefficientAsStated ==
    (pc = "countdown" /\ calWhy = "done" /\ calD = <<600, 0>>)
      => M_PER_S_AT_170 \in 7285 .. 7287

\* C9 amended: the same pulse gives clamp(0.60/0.70 * 170/120, 0.45, 0.85),
\* which is the upper bound 0.85, the unclamped value being about 1.2143.
C9_CoefficientClampedHigh ==
    (pc = "countdown" /\ calWhy = "done" /\ calD = <<600, 0>>)
      => /\ M_PER_S_AT_170 = M_HIGH
         /\ Scaled(VMeas(600)) \in 12142 .. 12143

C9_Witness ==
    /\ pc = "countdown" /\ calWhy = "done" /\ calD = <<600, 0>>
    /\ M_PER_S_AT_170 = 8500

\* C10: in every auto_calibrate that reaches the pulse, the pulse is
\* set_heading(0), set_speed(120), wait 0.70 s, set_speed(0), wait 0.25 s, and
\* the position is read only after that.
PulseSequence ==
    << <<"set_heading", 0>>, <<"set_speed", 120>>, <<"sleep", 700>>,
       <<"set_speed", 0>>, <<"sleep", 250>>, <<"get_location", 0>> >>
C10_PulseAtRawZero ==
    /\ Len(calTrace) <= Len(PulseSequence)
    /\ calTrace = SubSeq(PulseSequence, 1, Len(calTrace))

\* a set_heading or set_speed sent by run_lap_by_distance and the functions
\* it calls
IsLapCmd == pc \in LapPcs /\ lastCmd'[1] \in {"set_heading", "set_speed"}

\* C11: in every connection, no set_heading or set_speed of a lap is sent
\* before the auto_calibrate of that connection has returned, having set the
\* globals or skipped.
C11_CalibrateBeforeLaps ==
    [][IsLapCmd => calState = "returned"]_vars

\* the first heading of the first lap of a second connection has been sent
C11_Witness ==
    /\ pc = "drv_speed" /\ lastCmd[1] = "set_heading"
    /\ attempt = 2 /\ lap = 1 /\ idx = 1
    /\ calState = "returned"

\* the step of auto_calibrate that assigns HEADING_OFFSET and M_PER_S_AT_170
WriteStep == pc = "cal_measure" /\ calWhy' = "done"

\* C12 as stated: over the whole life of the process, reconnections included,
\* the pair (HEADING_OFFSET, M_PER_S_AT_170) is written at most once.
C12_WrittenOnce ==
    [][WriteStep => ~written]_vars

\* C12 amended: within one connection the pair is written at most once, by the
\* single auto_calibrate of that connection and before its first lap; no other
\* step changes it, so every command of every lap of the connection reads the
\* same pair.
C12_WrittenOncePerConnection ==
    [][/\ globals' # globals => WriteStep
       /\ WriteStep => (calState = "running" /\ lap = 0)
       /\ pc \in LapPcs => globals' = globals
       /\ calState' # "rerun"]_vars

\* the calibration of a second connection has replaced the pair the first
\* one had set
C12_Witness ==
    /\ pc = "countdown" /\ attempt = 2 /\ calWhy = "done"
    /\ calEntry[2] # M_DEFAULT
    /\ <<HEADING_OFFSET, M_PER_S_AT_170>> # calEntry

\* the program points that make indicator calls outside any try: battery_led
\* (set_front_led) and the set_led and set_front_led of the lap loop
IndicatorPcs == {"battery", "lap_led", "lap_front", "lap_battery"}

\* C13: a failing indicator call (set_matrix_character, set_front_led, set_led)
\* never reaches main's exception handler: it aborts no lap and triggers no
\* reconnection and no new calibration.
C13_IndicatorFailureHarmless ==
    pc = "except" => errFrom \notin IndicatorPcs

\* no exception has reached main's handler and no Ctrl+C has arrived
NoFault == pc \notin {"except", "exit2", "interrupted"}

\* C14: without Ctrl+C and without an error reaching main, the lap loop never
\* ends: every lap that has started finishes, every finished lap is followed
\* by the start of another one, the lap counter goes up by one at each start
\* and is 0 before the first (laps below the model's bound MaxLap).
C14_LapsForever ==
    /\ ([]NoFault) =>
          /\ (pc \in LapPcs \ {"lap_start"}) ~> (pc = "lap_start")
          /\ (pc = "lap_start" /\ lap < MaxLap) ~> (pc = "drv_reset")
    /\ [][(pc = "lap_start" /\ pc' \notin {"lap_start", "interrupted"})
            => (lap' = lap + 1 /\ pc' = "drv_reset")]_vars
    /\ [][(pc = "countdown" /\ pc' = "lap_start") => lap' = 0]_vars

\* the third lap of the first connection has started
C14_Witness ==
    /\ pc = "drv_reset" /\ idx = 1
    /\ lap = 3 /\ attempt = 1

\* logical headings the laps command
LogicalHeadings == {Deg(0), Deg(120), Deg(225), Deg(270)}

\* C15: for a robot whose true direction of travel is the commanded heading
\* plus a constant bias b, after any number of performed calibrations in one
\* process the command int(apply_offset(h)) makes it travel in direction h,
\* for every logical heading h.
C15_OffsetCancelsBias ==
    written =>
      \A b \in biasOk : \A h \in LogicalHeadings :
        norm_deg(Deg(ToInt(apply_offset(h, HEADING_OFFSET))) + b) = h

\* the sum of the turns that follow legs 1..k (degrees)
RECURSIVE SumTurns(_)
SumTurns(k) == IF k = 0 THEN 0 ELSE SumTurns(k - 1) + SegTurn(k)

\* int(norm(0 + turns of the legs before leg k + HEADING_OFFSET)), in one step
ExpectedHeading(k) == ((Deg(SumTurns(k - 1)) + HEADING_OFFSET) % Deg(360)) \div 100

\* the speeds of the eight legs
LegSpeeds == <<140, 140, 140, 140, 180, 140, 140, 180>>

\* C16: leg k of a lap is driven at the heading int(norm(0 + the turns of legs
\* 1..k-1 + HEADING_OFFSET)) and at speed 140 if its own turn exceeds 20
\* degrees in absolute value, else 180 (a turn of exactly 20 or -20 gives 180);
\* the heading sent after leg k has that leg's turn added; every lap starts
\* from logical heading 0 although the turns of a lap sum to -240.
C16_LegCommands ==
    /\ (pc = "drv_speed" /\ lastCmd[1] = "set_heading")
          => lastCmd[2] = ExpectedHeading(idx)
    /\ (pc = "drv_loc0" /\ lastCmd[1] = "set_speed")
          => lastCmd[2] = LegSpeeds[idx]
    /\ (pc = "drv_reset" /\ lastCmd[1] = "set_heading")
          => lastCmd[2] = ExpectedHeading(idx)
    /\ (pc = "lap_led" /\ lastCmd[1] = "set_heading")
          => lastCmd[2] = ExpectedHeading(Len(SEGMENTS_DISTANCE_TURNS) + 1)
    /\ (pc = "drv_reset" /\ idx = 1) => current_hdg = 0
    /\ SumTurns(Len(SEGMENTS_DISTANCE_TURNS)) = 0 - 240
    /\ SpeedForTurn(20) = 180 /\ SpeedForTurn(0 - 20) = 180
    /\ SpeedForTurn(21) = 140 /\ SpeedForTurn(0 - 21) = 140

\* the first heading of a second lap, sent by a robot calibrated to 90 degrees
C16_Witness ==
    /\ pc = "drv_speed" /\ idx = 1 /\ lap = 2
    /\ HEADING_OFFSET = Deg(90)
    /\ lastCmd = <<"set_heading", 90>>

\* floor of dist / (m * spd / 170) in ms, for dist in mm and m in 1e-4 m/s:
\* dist * 1700000 / (m * spd), by long division
DurationMs(dist, m, spd) ==
    LET x == dist * 17000
        y == m * spd
    IN  (x \div y) * 100 + ((x % y) * 100) \div y

\* C17: each drive_forward_distance decides by itself how it is timed: it polls
\* the position exactly when get_location exists, the reset of this call
\* succeeded and the start position was read in this call, whatever the
\* previous leg or the calibration did; otherwise it sleeps for
\* distance / max(velocity, 1e-6) seconds and then stops.
C17_ModePerCall ==
    /\ [](pc = "drv_reset" => (~use_locator /\ pollExit = ""))
    /\ [][/\ (pc = "drv_reset" /\ pc' = "drv_heading")
               => use_locator' = (has_locator /\ resetRet' = "true")
          /\ (pc = "drv_loc0" /\ pc' = "drv_poll") => (use_locator /\ use_locator')
          /\ (pc = "drv_loc0" /\ pc' = "drv_sleep") => ~use_locator'
          /\ (pc = "drv_sleep" /\ pc' = "drv_stop")
               => /\ lastCmd'[1] = "sleep"
                  /\ lastCmd'[2] - DurationMs(distance_m, M_PER_S_AT_170, speed) \in 0..1
          /\ (pc = "drv_stop" /\ pc' = "turn") => lastCmd' = <<"set_speed", 0>>]_vars

\* a leg polls the position after the leg before it was timed by the clock
C17_Witness ==
    /\ pc = "drv_poll" /\ use_locator /\ elapsed = 0
    /\ lastLeg = "open"

\* C18 as stated: the timeout of the poll loop is 2.0 times
\* distance / (M_PER_S_AT_170 * speed / 170) for every distance and speed, so
\* no iteration goes on polling once the elapsed time exceeds that product.
C18_TimeoutTwiceEstimate ==
    (pc = "drv_poll" /\ polled)
      => elapsed <= TIMEOUT_FACTOR * DurationMs(distance_m, M_PER_S_AT_170, speed) + 2

\* C18 amended: the timeout is 2.0 times max(0.1 s, distance / (M_PER_S_AT_170
\* * speed / 170)): an iteration goes on polling only while the elapsed time
\* does not exceed it, and the loop is left on the timeout only once it does
\* (2 ms allowed for the rounding of the division).
C18_TimeoutTwiceFlooredEstimate ==
    LET claimed == TIMEOUT_FACTOR
                     * Max(MIN_EST_MS, DurationMs(distance_m, M_PER_S_AT_170, speed))
    IN  /\ (pc = "drv_poll" /\ polled) => elapsed <= claimed + 2
        /\ (pc = "drv_stop" /\ pollExit = "timeout") => elapsed > claimed

\* a leg of 0.05 m at speed 180 and coefficient 0.85, estimated at 0.055 s,
\* still polling after 0.15 s
C18_Witness ==
    /\ pc = "drv_poll" /\ polled
    /\ distance_m = 50 /\ speed = STRAIGHT_SPEED /\ M_PER_S_AT_170 = M_HIGH
    /\ elapsed = 150

\* C19: try_reset_locator never raises: it calls reset_locator first and, if
\* that fails for any reason, set_location, set_locator and set_position in
\* this order up to the first that succeeds, and returns False if none does.
C19_ResetFallsBack ==
    resetRet # "" =>
      /\ resetRet # "raise"
      /\ \E n \in 0..3 : resetLog = <<"reset_locator">> \o SubSeq(FallbackNames, 1, n)
      /\ resetRet = "false" => Len(resetLog) = 4

\* C20: main makes at most 3 connection attempts.  An error reaching main on
\* attempt 1 or 2 leads to a new connection, with no calibration made yet and
\* the lap counter back at 0 (so that its first lap is lap 1); an error on
\* attempt 3 ends the process with exit status 2; the attempt number never
\* goes down, whatever laps have been driven.
C20_ThreeAttempts ==
    /\ [](ATTEMPTS = 3 /\ attempt \in 1..3)
    /\ [](pc = "exit2" => attempt = 3)
    /\ [](pc = "connect" => (lap = 0 /\ calState = "none"))
    /\ [][/\ attempt' >= attempt
          /\ attempt' # attempt => (pc = "except" /\ attempt' = attempt + 1)
          /\ (pc = "except" /\ attempt < 3 /\ pc' # "interrupted") => pc' = "connect"
          /\ (pc = "except" /\ attempt = 3 /\ pc' # "interrupted") => pc' = "exit2"
          /\ pc' = "exit2" => pc = "except"
          /\ (pc = "lap_start" /\ pc' = "drv_reset" /\ lap = 0) => lap' = 1]_vars

\* an error in the second lap of the third connection
C20_Witness ==
    /\ pc = "except" /\ attempt = 3
    /\ errFrom \in DrvPcs /\ lap = 2

====
